---- MODULE Spec2Model ----
(***************************************************************************)
(* Model of the RINEX navigation-file merger: rinex_quality_check.py       *)
(* (is_valid_rinex), rinex_parsers.py (GLONASSRinexParser) and             *)
(* rinex_merger.py (RinexMerger.merge_files and its helpers).              *)
(*                                                                         *)
(* Text lines are modelled by what the code's regular expressions and      *)
(* fixed-column slices read from them:                                     *)
(*   blank   line.strip() == ""                                            *)
(*   hdr     the line matches the label/date pattern of                    *)
(*           rinex_quality_check.py:50                                     *)
(*   SV, DD, hh   satellite number and epoch read from the label/date part *)
(*           (year, month, minute and second are held fixed)               *)
(*   fields  the scientific-notation fields of the line, left to right,    *)
(*           in units of 1e-2 (so 4e4 is 4000000 and 3e-2 is 3)            *)
(*   short   the fields are narrower than 19 characters, so that the line  *)
(*           ends before the parser's last fixed-column slice holds a      *)
(*           number; the regular expressions still find every field        *)
(* An optional value (a DataFrame cell that may be NaN/NaT, a header line  *)
(* that may be missing, an optional argument) is a set with zero or one    *)
(* element.  A DataFrame is a record of its columns and its rows.          *)
(***************************************************************************)
EXTENDS Integers, Sequences, FiniteSets, TLC

(* ---------------------------------------------------------------------- *)
(* Bounds of the model                                                     *)
(* ---------------------------------------------------------------------- *)
\* largest number of directory entries in a merge run
MaxFiles == 2
\* largest number of chunks (blocks, stray lines) in a validated body
MaxChunks == 3

(* ---------------------------------------------------------------------- *)
(* Program constants                                                       *)
(* ---------------------------------------------------------------------- *)
\* 4e4, in units of 1e-2
PseudorangeBound == 4000000
\* 3e1, in units of 1e-2
VelocityBound == 3000
\* 3e-2, in units of 1e-2
AccelerationBound == 3
\* the literal "3.04" of the written version line, in units of 1e-2
WrittenVersion == 304
\* lowest accepted version 3, in units of 1e-2
MinVersion == 300
\* first rejected version 4, in units of 1e-2
EndVersion == 400
\* hours per day, used to build datetime_utc from (DD, hh)
HoursPerDay == 24

(* ---------------------------------------------------------------------- *)
(* Lines                                                                   *)
(* ---------------------------------------------------------------------- *)
BlankLine ==
    [blank |-> TRUE, hdr |-> FALSE, short |-> FALSE, SV |-> 0, DD |-> 0, hh |-> 0, fields |-> <<>>]

FirstLine(sv, dd, hh, fs) ==
    [blank |-> FALSE, hdr |-> TRUE, short |-> FALSE, SV |-> sv, DD |-> dd, hh |-> hh, fields |-> fs]

ContLine(fs) ==
    [blank |-> FALSE, hdr |-> FALSE, short |-> FALSE, SV |-> 0, DD |-> 0, hh |-> 0, fields |-> fs]

\* a continuation line whose fields are written narrower than 19 characters
ShortLine(fs) == [ContLine(fs) EXCEPT !.short = TRUE]

RECURSIVE Flatten(_)
Flatten(ss) == IF ss = <<>> THEN <<>> ELSE Head(ss) \o Flatten(Tail(ss))

RECURSIVE SeqsUpTo(_, _)
SeqsUpTo(S, n) ==
    IF n = 0 THEN {<<>>}
    ELSE LET shorter == SeqsUpTo(S, n - 1)
         IN  shorter \cup {Append(s, x) : s \in shorter, x \in S}

(* ---------------------------------------------------------------------- *)
(* rinex_quality_check.is_valid_rinex                                      *)
(* ---------------------------------------------------------------------- *)
\* one entry of the error list: what was found, at which body line, column
Err(kind, line, col) == [kind |-> kind, line |-> line, col |-> col]

\* the bound test with the velocity limit used for the acceleration column
OutOfBounds_AccelerationAsVelocity(col_idx, number) ==
    \/ col_idx = 0 /\ number # 0 /\ (number > PseudorangeBound \/ number < -PseudorangeBound)
    \/ col_idx = 1 /\ number # 0 /\ (number > VelocityBound \/ number < -VelocityBound)
    \/ col_idx = 2 /\ number # 0 /\ (number > VelocityBound \/ number < -VelocityBound)

\* the bound test of one value of a continuation line (col is 0-based)
OutOfBounds(col_idx, number) ==
    \/ col_idx = 0 /\ number # 0 /\ (number > PseudorangeBound \/ number < -PseudorangeBound)
    \/ col_idx = 1 /\ number # 0 /\ (number > VelocityBound \/ number < -VelocityBound)
    \/ col_idx = 2 /\ number # 0 /\ (number > AccelerationBound \/ number < -AccelerationBound)

RECURSIVE CheckColumns(_, _, _, _)
CheckColumns(columns, line, c, errors) ==
    IF c > Len(columns) THEN errors
    ELSE CheckColumns(columns, line, c + 1,
            IF OutOfBounds(c - 1, columns[c])
            THEN Append(errors, Err("anomalous", line, c - 1))
            ELSE errors)

\* the loop over lines 2-4 that stops without an error when the lines run out
RECURSIVE CheckBlockLines_SilentAtEnd(_, _, _, _)
CheckBlockLines_SilentAtEnd(data_lines, i, j, errors) ==
    IF j > 3 THEN errors
    ELSE IF i + j > Len(data_lines)
         THEN errors
    ELSE IF Len(data_lines[i + j].fields) # 4
         THEN Append(errors, Err("column_count", i + j, 0))
    ELSE CheckBlockLines_SilentAtEnd(data_lines, i, j + 1,
            CheckColumns(data_lines[i + j].fields, i + j, 1, errors))

\* the loop "for j in range(1, 4)" over the lines after the block's first line i
RECURSIVE CheckBlockLines(_, _, _, _)
CheckBlockLines(data_lines, i, j, errors) ==
    IF j > 3 THEN errors
    ELSE IF i + j > Len(data_lines)
         THEN Append(errors, Err("not_enough_lines", i + j, 0))
    ELSE IF Len(data_lines[i + j].fields) # 4
         THEN Append(errors, Err("column_count", i + j, 0))
    ELSE CheckBlockLines(data_lines, i, j + 1,
            CheckColumns(data_lines[i + j].fields, i + j, 1, errors))

\* the loop "while i < len(data_lines)"
RECURSIVE ScanBlocks(_, _, _)
ScanBlocks(data_lines, i, errors) ==
    IF i > Len(data_lines) THEN errors
    ELSE IF data_lines[i].blank THEN ScanBlocks(data_lines, i + 1, errors)
    ELSE IF ~data_lines[i].hdr
         THEN Append(errors, Err("header_format", i, 0))
    ELSE IF Len(data_lines[i].fields) # 3
         THEN Append(errors, Err("header_count", i, 0))
    ELSE ScanBlocks(data_lines, i + 4, CheckBlockLines(data_lines, i, 1, errors))

\* a read failure that is left to propagate
ReadFailure_Propagates(file) ==
    [raised |-> TRUE, valid |-> FALSE, errors |-> <<>>]

\* lines 21-26: the exception of open() or readlines() becomes an error entry
ReadFailure(file) ==
    [raised |-> FALSE, valid |-> FALSE, errors |-> <<Err("read", 0, 0)>>]

is_valid_rinex(file) ==
    IF ~file.readable THEN ReadFailure(file)
    ELSE IF ~file.eoh
         THEN [raised |-> FALSE, valid |-> FALSE, errors |-> <<Err("no_end_of_header", 0, 0)>>]
    ELSE LET errors == ScanBlocks(file.body, 1, <<>>)
         IN  [raised |-> FALSE, valid |-> Len(errors) = 0, errors |-> errors]

(* ---------------------------------------------------------------------- *)
(* rinex_parsers.GLONASSRinexParser                                        *)
(* ---------------------------------------------------------------------- *)
HeaderColumns == {"rinex_ver", "datetime_utc", "GLUT", "leap_sec"}

SvColumns == {"SV_label", "SV", "YYYY", "MM", "DD", "hh", "mm", "ss", "datetime_utc", "FloatList"}

\* the columns of a one-row header frame: the keys parse_header has set
KeysOf(row) == {c \in HeaderColumns : row[c] # {}}

\* open() fails on an unreadable path; otherwise one row of the keys found
parse_header(file) ==
    [raised |-> ~file.readable,
     columns |-> KeysOf(file.header),
     rows |-> IF KeysOf(file.header) = {} THEN <<>> ELSE <<file.header>>]

\* datetime(YYYY, MM, DD, hh, mm, ss), in hours
datetime_utc(dd, hh) == dd * HoursPerDay + hh

\* the record built from the block whose first line is data_lines[i]
SatData(data_lines, i) ==
    [SV_label |-> data_lines[i].SV,
     SV |-> data_lines[i].SV,
     DD |-> data_lines[i].DD,
     hh |-> data_lines[i].hh,
     datetime_utc |-> datetime_utc(data_lines[i].DD, data_lines[i].hh),
     FloatList |-> SubSeq(data_lines[i].fields, 1, 3)
                   \o SubSeq(data_lines[i + 1].fields, 1, 4)
                   \o SubSeq(data_lines[i + 2].fields, 1, 4)
                   \o SubSeq(data_lines[i + 3].fields, 1, 4)]

\* int() and float() of the fixed-column slices succeed on the first line
FirstLineParses(line) == ~line.blank /\ line.hdr /\ ~line.short /\ Len(line.fields) >= 3

\* float() of the four 19-character slices succeeds on lines 2-4; a line
\* read past the end of the file is the empty string and fails
OrbitLinesParse(data_lines, i) ==
    \A j \in 1..3 :
        /\ i + j <= Len(data_lines)
        /\ ~data_lines[i + j].hdr
        /\ ~data_lines[i + j].short
        /\ Len(data_lines[i + j].fields) >= 4

\* the loop "while True" of parse_sv_data, from body line i on
RECURSIVE ReadBlocks(_, _, _)
ReadBlocks(data_lines, i, satellites_data) ==
    IF i > Len(data_lines) THEN [raised |-> FALSE, rows |-> satellites_data]
    ELSE IF ~FirstLineParses(data_lines[i]) \/ ~OrbitLinesParse(data_lines, i)
         THEN [raised |-> TRUE, rows |-> <<>>]
    ELSE ReadBlocks(data_lines, i + 4, Append(satellites_data, SatData(data_lines, i)))

parse_sv_data(file) ==
    IF ~file.readable THEN [raised |-> TRUE, columns |-> {}, rows |-> <<>>]
    ELSE LET r == ReadBlocks(IF file.eoh THEN file.body ELSE <<>>, 1, <<>>)
         IN  [raised |-> r.raised,
              columns |-> IF r.rows = <<>> THEN {} ELSE SvColumns,
              rows |-> r.rows]

\* get_columns_subset
get_columns_subset == {"GLUT", "leap_sec"}

(* ---------------------------------------------------------------------- *)
(* rinex_merger.RinexMerger: pure parts                                    *)
(* ---------------------------------------------------------------------- *)
\* the version test with its upper limit left out
VersionSupported_NoUpperLimit(rinex_ver) == ~(rinex_ver < MinVersion)

\* the version test of parse_rinex_file: the file is kept
VersionSupported(rinex_ver) == ~(rinex_ver >= EndVersion \/ rinex_ver < MinVersion)

\* the window test with the end left out of the window
InWindow_EndExclusive(t, start, end) == t >= start /\ t < end

InWindow(t, start, end) == t >= start /\ t <= end

filter_by_date(rows, start, end) ==
    SelectSeq(rows, LAMBDA r : InWindow(r.datetime_utc, start, end))

\* variant: each bound that is given is applied on its own
ApplyWindow_OneSided(rows, start, end) ==
    SelectSeq(rows, LAMBDA r : /\ \A t \in start : r.datetime_utc >= t
                               /\ \A t \in end : r.datetime_utc <= t)

\* lines 128-129: "if start_date and end_date" guards the filter
ApplyWindow(rows, start, end) ==
    IF start # {} /\ end # {}
    THEN filter_by_date(rows, CHOOSE t \in start : TRUE, CHOOSE t \in end : TRUE)
    ELSE rows

\* the subset of drop_duplicates
DedupKey(r) == <<r.SV, r.DD, r.hh>>

\* a row is dropped only when the row right before it has its key
drop_duplicates_consecutive(rows) ==
    LET keep == {n \in 1..Len(rows) : n = 1 \/ DedupKey(rows[n - 1]) # DedupKey(rows[n])}
        RECURSIVE Pick(_)
        Pick(n) == IF n > Len(rows) THEN <<>>
                   ELSE (IF n \in keep THEN <<rows[n]>> ELSE <<>>) \o Pick(n + 1)
    IN  Pick(1)

\* keep='first': a row stays when no earlier row has its key
drop_duplicates(rows) ==
    LET keep == {n \in 1..Len(rows) : \A m \in 1..(n - 1) : DedupKey(rows[m]) # DedupKey(rows[n])}
        RECURSIVE Pick(_)
        Pick(n) == IF n > Len(rows) THEN <<>>
                   ELSE (IF n \in keep THEN <<rows[n]>> ELSE <<>>) \o Pick(n + 1)
    IN  Pick(1)

\* the order of a sort by datetime_utc alone
SvBefore_TimeOnly(a, b) == a.datetime_utc < b.datetime_utc

\* the order of sort_values(["SV", "datetime_utc"], ascending=[True, True])
SvBefore(a, b) == a.SV < b.SV \/ (a.SV = b.SV /\ a.datetime_utc < b.datetime_utc)

RECURSIVE InsertSorted(_, _)
InsertSorted(sorted, r) ==
    IF sorted = <<>> THEN <<r>>
    ELSE IF SvBefore(r, Head(sorted)) THEN <<r>> \o sorted
    ELSE <<Head(sorted)>> \o InsertSorted(Tail(sorted), r)

RECURSIVE sort_values(_)
sort_values(rows) ==
    IF rows = <<>> THEN <<>>
    ELSE InsertSorted(sort_values(SubSeq(rows, 1, Len(rows) - 1)), rows[Len(rows)])

\* dropna(subset=sub_columns, how='all'), done only when every sub column exists
\* variant: the rows without a tracked value go as soon as the frame has one
\* of the tracked columns
dropna_AnyTrackedColumn(df) ==
    IF get_columns_subset \cap df.columns # {}
    THEN SelectSeq(df.rows, LAMBDA r : \E c \in get_columns_subset : r[c] # {})
    ELSE df.rows

dropna(df) ==
    IF get_columns_subset \subseteq df.columns
    THEN SelectSeq(df.rows, LAMBDA r : \E c \in get_columns_subset : r[c] # {})
    ELSE df.rows

\* sort_values(by='datetime_utc', ascending=False): newest first, NaT last;
\* the default sort is not stable, so rows of equal time come in any order
\* variant: the sort without ascending=False, oldest first, NaT last
HeaderOrdered_Ascending(a, b) ==
    \/ b.datetime_utc = {}
    \/ a.datetime_utc # {} /\ \A x \in a.datetime_utc, y \in b.datetime_utc : x <= y

HeaderOrdered(a, b) ==
    \/ b.datetime_utc = {}
    \/ a.datetime_utc # {} /\ \A x \in a.datetime_utc, y \in b.datetime_utc : x >= y

IndexOrders(n) ==
    {p \in [1..n -> 1..n] : \A a, b \in 1..n : a # b => p[a] # p[b]}

SortedDescending(rows) ==
    {[n \in 1..Len(rows) |-> rows[p[n]]] : p \in
        {q \in IndexOrders(Len(rows)) :
            \A a, b \in 1..Len(rows) : a < b => HeaderOrdered(rows[q[a]], rows[q[b]])}}

\* the nearest known value of column c below row n (bfill), else above (ffill)
FillCell(rows, n, c) ==
    LET below == {m \in n..Len(rows) : rows[m][c] # {}}
        above == {m \in 1..n : rows[m][c] # {}}
    IN  IF below # {} THEN rows[CHOOSE m \in below : \A x \in below : m <= x][c]
        ELSE IF above # {} THEN rows[CHOOSE m \in above : \A x \in above : m >= x][c]
        ELSE {}

bfill_ffill(rows) ==
    [n \in 1..Len(rows) |->
        [rows[n] EXCEPT !.rinex_ver = FillCell(rows, n, "rinex_ver"),
                        !.datetime_utc = FillCell(rows, n, "datetime_utc"),
                        !.GLUT = FillCell(rows, n, "GLUT"),
                        !.leap_sec = FillCell(rows, n, "leap_sec")]]

\* variant: the rows of the new frame are put in front of the pooled ones
concat_NewFirst(a, b) == [columns |-> a.columns \cup b.columns, rows |-> b.rows \o a.rows]

\* pd.concat([a, b], ignore_index=True)
concat(a, b) == [columns |-> a.columns \cup b.columns, rows |-> a.rows \o b.rows]

EmptyFrame == [columns |-> {}, rows |-> <<>>]

\* the provenance of a row: the position of its file in gnss_files
Tagged(rows, k) == [n \in 1..Len(rows) |-> [src |-> k] @@ rows[n]]

(* ---------------------------------------------------------------------- *)
(* GLONASSRinexParser.write_to_rinex_file                                  *)
(* ---------------------------------------------------------------------- *)
HeaderLine(label, value) == [label |-> label, value |-> value]

\* variant: a leap-seconds line is written in any case, with 0 when no
\* header carries the field
WriteHeader_LeapSentinel(head) ==
    <<HeaderLine("RINEX VERSION / TYPE", <<WrittenVersion>>)>>
    \o <<HeaderLine("PGM / RUN BY / DATE", <<CHOOSE t \in head.rows[1].datetime_utc : TRUE>>)>>
    \o (IF "GLUT" \in head.columns
        THEN <<HeaderLine("TIME SYSTEM CORR", CHOOSE g \in head.rows[1].GLUT : TRUE)>>
        ELSE <<>>)
    \o (IF "leap_sec" \in head.columns
        THEN <<HeaderLine("LEAP SECONDS", <<CHOOSE n \in head.rows[1].leap_sec : TRUE>>)>>
        ELSE <<HeaderLine("LEAP SECONDS", <<0>>)>>)
    \o <<HeaderLine("END OF HEADER", <<>>)>>

WriteHeader(head) ==
    <<HeaderLine("RINEX VERSION / TYPE", <<WrittenVersion>>)>>
    \o <<HeaderLine("PGM / RUN BY / DATE", <<CHOOSE t \in head.rows[1].datetime_utc : TRUE>>)>>
    \o (IF "GLUT" \in head.columns
        THEN <<HeaderLine("TIME SYSTEM CORR", CHOOSE g \in head.rows[1].GLUT : TRUE)>>
        ELSE <<>>)
    \o (IF "leap_sec" \in head.columns
        THEN <<HeaderLine("LEAP SECONDS", <<CHOOSE n \in head.rows[1].leap_sec : TRUE>>)>>
        ELSE <<>>)
    \o <<HeaderLine("END OF HEADER", <<>>)>>

WriteBlock(row) ==
    <<FirstLine(row.SV, row.DD, row.hh, SubSeq(row.FloatList, 1, 3)),
      ContLine(SubSeq(row.FloatList, 4, 7)),
      ContLine(SubSeq(row.FloatList, 8, 11)),
      ContLine(SubSeq(row.FloatList, 12, 15))>>

WriteSvData(rows) == Flatten([n \in 1..Len(rows) |-> WriteBlock(rows[n])])

\* the first row's cells that the writer reads without a guard
WriterFails(head) ==
    \/ head.rows = <<>>
    \/ head.rows[1].datetime_utc = {}
    \/ "GLUT" \in head.columns /\ head.rows[1].GLUT = {}
    \/ "leap_sec" \in head.columns /\ head.rows[1].leap_sec = {}

(* ---------------------------------------------------------------------- *)
(* State                                                                   *)
(* ---------------------------------------------------------------------- *)
VARIABLES
    input_dir,               \* os.listdir(input_files_dir), in listing order
    start_date, end_date,    \* the optional arguments of merge_files
    pc,                      \* where merge_files stands
    gnss_files,              \* the candidates returned by get_gnss_files
    k,                       \* position of the for loop of parse_files
    log,                     \* what log_results has written, one entry per file
    result_df_header_data,   \* the header pool, later the processed header
    result_df_sv_data,       \* the satellite pool, later the consolidated frame
    output,                  \* the written file: <<>> or <<[header, body]>>
    exc                      \* the exception that left merge_files: <<>> or <<[type, at]>>

vars == <<input_dir, start_date, end_date, pc, gnss_files, k, log,
          result_df_header_data, result_df_sv_data, output, exc>>

Raise(type, at) == pc' = "raised" /\ exc' = <<[type |-> type, at |-> at]>>

(* ---------------------------------------------------------------------- *)
(* Inputs                                                                  *)
(* ---------------------------------------------------------------------- *)
Header(ver, date, glut, leap) ==
    [rinex_ver |-> ver, datetime_utc |-> date, GLUT |-> glut, leap_sec |-> leap]

Entry(isfile, tagged, readable, eoh, header, body) ==
    [isfile |-> isfile, tagged |-> tagged, readable |-> readable, eoh |-> eoh,
     header |-> header, body |-> body]

\* a well-formed block; v tells apart two broadcasts of the same epoch
Block(sv, dd, hh, v) ==
    <<FirstLine(sv, dd, hh, <<v, 0, 5184000>>),
      ContLine(<<1000000 + v, 100, 0, 0>>),
      ContLine(<<-2000000, -200, 1, 1>>),
      ContLine(<<500000, 300, -1, 0>>)>>

\* a block of the given first line and continuation lines
BlockOf(first, l2, l3, l4) == <<FirstLine(1, 1, 0, first), ContLine(l2), ContLine(l3), ContLine(l4)>>

PlainHeader == Header({304}, {100}, {}, {})

\* bodies of the files of a merge run
MergeBodies ==
    { Block(1, 1, 0, 1),
      Block(1, 1, 0, 2),
      Block(2, 1, 12, 1) \o Block(1, 2, 0, 1),
      Block(1, 2, 0, 1) \o Block(1, 1, 0, 2) \o Block(1, 2, 0, 2),
      <<>>,
      Block(2, 2, 6, 1) \o <<BlankLine>>,
      <<FirstLine(2, 2, 6, <<1, 0, 0>>), ContLine(<<1, 1, 1, 1>>), ContLine(<<1, 1, 1, 1>>),
        ShortLine(<<1, 1, 1, 1>>)>>,
      <<ContLine(<<1, 1, 1>>)>>,
      BlockOf(<<1, 0, 0>>, <<1, 1, 1, 1>>, <<1, 1, 1>>, <<1, 1, 1, 1>>) }

\* headers of the files of a merge run
MergeHeaders ==
    { Header({}, {100}, {}, {}),
      Header({211}, {100}, {}, {}),
      Header({400}, {300}, {<<1, 0, 0, 0>>}, {18}),
      Header({304}, {}, {}, {}),
      Header({305}, {}, {<<1, 0, 0, 0>>}, {17}),
      Header({304}, {200}, {<<2, 0, 0, 0>>}, {}),
      Header({304}, {200}, {}, {18}),
      Header({304}, {200}, {}, {17}),
      Header({303}, {100}, {}, {17}) }

MergeEntries ==
    {Entry(TRUE, TRUE, TRUE, TRUE, PlainHeader, b) : b \in MergeBodies}
    \cup {Entry(TRUE, TRUE, TRUE, TRUE, h, Block(2, 1, 0, 1)) : h \in MergeHeaders}
    \cup { Entry(TRUE, FALSE, TRUE, TRUE, PlainHeader, Block(2, 2, 0, 1)),
           Entry(FALSE, TRUE, TRUE, TRUE, PlainHeader, Block(2, 2, 0, 1)),
           Entry(TRUE, TRUE, FALSE, TRUE, PlainHeader, Block(2, 2, 0, 1)),
           Entry(TRUE, TRUE, TRUE, FALSE, PlainHeader, Block(2, 2, 0, 1)) }

\* the windows passed to merge_files, in hours
Windows == { <<{}, {}>>, <<{24}, {47}>>, <<{36}, {48}>>, <<{24}, {}>>, <<{}, {47}>> }

\* the pieces a validated body is put together from
Chunks ==
    { Block(1, 1, 0, 1),
      <<BlankLine>>,
      <<ContLine(<<>>)>>,
      <<FirstLine(1, 1, 0, <<1, 0, 0>>)>>,
      BlockOf(<<1, 0>>, <<1, 1, 1, 1>>, <<1, 1, 1, 1>>, <<1, 1, 1, 1>>),
      BlockOf(<<1, 0, 0>>, <<1, 1, 1>>, <<1, 1, 1, 1>>, <<1, 1, 1, 1>>),
      BlockOf(<<1, 0, 0>>, <<1, 1, 1, 1>>, <<1, 1, 1, 1, 1>>, <<1, 1, 1, 1>>),
      <<FirstLine(1, 1, 0, <<1, 0, 0>>), ContLine(<<1, 1, 1, 1>>), ContLine(<<1, 1, 1, 1>>)>>,
      BlockOf(<<1, 0, 0>>, <<4000001, 1, 1, 1>>, <<1, 1, 1, 1>>, <<1, 1, 4, 1>>),
      BlockOf(<<1, 0, 0>>, <<1, 1, 1, 1>>, <<1, -3001, 1, 1>>, <<1, 1, 1, 1>>),
      BlockOf(<<1, 0, 0>>, <<-4000000, 3000, -3, 99999999>>, <<0, 0, 0, 0>>, <<4000000, -3000, 3, 1>>),
      BlockOf(<<1, 0, 0>>, <<1, 1, 1>>, <<-4000001, 1, 1, 1>>, <<1, 1, 1, 1>>) }

ValidatorEntries ==
    {Entry(TRUE, TRUE, TRUE, eoh, PlainHeader, Flatten(cs)) :
        eoh \in BOOLEAN, cs \in SeqsUpTo(Chunks, MaxChunks)}
    \cup {Entry(TRUE, TRUE, FALSE, TRUE, PlainHeader, Block(1, 1, 0, 1))}

(* ---------------------------------------------------------------------- *)
(* merge_files                                                             *)
(* ---------------------------------------------------------------------- *)
Start(dirs, windows) ==
    /\ input_dir \in dirs
    /\ \E w \in windows : start_date = w[1] /\ end_date = w[2]
    /\ pc = "get_gnss_files"
    /\ gnss_files = <<>>
    /\ k = 1
    /\ log = <<>>
    /\ result_df_header_data = EmptyFrame
    /\ result_df_sv_data = EmptyFrame
    /\ output = <<>>
    /\ exc = <<>>

\* a merge run over a directory of up to MaxFiles entries
Init == Start(SeqsUpTo(MergeEntries, MaxFiles), Windows)

\* a merge run over one file whose body is put together from Chunks
InitV == Start({<<f>> : f \in ValidatorEntries}, {<<{}, {}>>})

\* lines 81-83: regular files whose name holds the constellation tag
get_gnss_files ==
    /\ pc = "get_gnss_files"
    /\ gnss_files' = SelectSeq(input_dir, LAMBDA f : f.isfile /\ f.tagged)
    /\ pc' = "parse_files"
    /\ UNCHANGED <<input_dir, start_date, end_date, k, log, result_df_header_data,
                   result_df_sv_data, output, exc>>

\* lines 119-120 and 85-97: validate, log, and skip the file when invalid
validate_rinex_file ==
    /\ pc = "parse_files"
    /\ k <= Len(gnss_files)
    /\ LET res == is_valid_rinex(gnss_files[k])
       IN  IF res.raised
           THEN Raise("OSError", "is_valid_rinex") /\ UNCHANGED <<log, k>>
           ELSE /\ log' = Append(log, [file |-> k, status |-> res.valid, errors |-> res.errors])
                /\ pc' = IF res.valid THEN "parse_rinex_file" ELSE "parse_files"
                /\ k' = IF res.valid THEN k ELSE k + 1
                /\ UNCHANGED exc
    /\ UNCHANGED <<input_dir, start_date, end_date, gnss_files, result_df_header_data,
                   result_df_sv_data, output>>

\* what lines 122-130 do with a validated file: the new pools, or an exception
ParseOutcome(file, n, headers, satellites, start, end) ==
    LET df_header == parse_header(file)
        df_sv_data == parse_sv_data(file)
        header_pool == concat(headers, [columns |-> df_header.columns,
                                        rows |-> Tagged(df_header.rows, n)])
        same == [raised |-> <<>>, headers |-> headers, satellites |-> satellites]
    IN  IF df_header.raised
        THEN [same EXCEPT !.raised = <<[type |-> "OSError", at |-> "parse_header"]>>]
        ELSE IF file.header.rinex_ver = {}
        THEN [same EXCEPT !.raised = <<[type |-> "KeyError", at |-> "parse_rinex_file"]>>]
        ELSE IF \E v \in file.header.rinex_ver : ~VersionSupported(v)
        THEN same
        ELSE IF df_sv_data.raised
        THEN [same EXCEPT !.raised = <<[type |-> "ValueError", at |-> "parse_sv_data"]>>]
        ELSE IF start # {} /\ end # {} /\ df_sv_data.columns = {}
        THEN [raised |-> <<[type |-> "KeyError", at |-> "filter_by_date"]>>,
              headers |-> header_pool, satellites |-> satellites]
        ELSE [raised |-> <<>>, headers |-> header_pool,
              satellites |-> concat(satellites,
                  [columns |-> df_sv_data.columns,
                   rows |-> ApplyWindow(Tagged(df_sv_data.rows, n), start, end)])]

\* lines 122-130 and 145-151
parse_rinex_file ==
    /\ pc = "parse_rinex_file"
    /\ LET r == ParseOutcome(gnss_files[k], k, result_df_header_data, result_df_sv_data,
                             start_date, end_date)
       IN  /\ result_df_header_data' = r.headers
           /\ result_df_sv_data' = r.satellites
           /\ exc' = r.raised
           /\ pc' = IF r.raised # <<>> THEN "raised" ELSE "parse_files"
           /\ k' = IF r.raised # <<>> THEN k ELSE k + 1
    /\ UNCHANGED <<input_dir, start_date, end_date, gnss_files, log, output>>

\* line 132: the loop is over
parse_files ==
    /\ pc = "parse_files"
    /\ k > Len(gnss_files)
    /\ pc' = "process_header_data"
    /\ UNCHANGED <<input_dir, start_date, end_date, gnss_files, k, log,
                   result_df_header_data, result_df_sv_data, output, exc>>

\* lines 179-185: sort_values raises KeyError when no header has a date
process_header_data ==
    /\ pc = "process_header_data"
    /\ IF "datetime_utc" \notin result_df_header_data.columns
       THEN Raise("KeyError", "process_header_data") /\ UNCHANGED result_df_header_data
       ELSE /\ \E sorted \in SortedDescending(dropna(result_df_header_data)) :
                 result_df_header_data' =
                     [columns |-> result_df_header_data.columns, rows |-> bfill_ffill(sorted)]
            /\ pc' = "process_sv_data"
            /\ UNCHANGED exc
    /\ UNCHANGED <<input_dir, start_date, end_date, gnss_files, k, log,
                   result_df_sv_data, output>>

\* lines 197-200: drop_duplicates raises KeyError when the pool has no columns
process_sv_data ==
    /\ pc = "process_sv_data"
    /\ IF result_df_sv_data.columns = {}
       THEN Raise("KeyError", "process_sv_data") /\ UNCHANGED result_df_sv_data
       ELSE /\ result_df_sv_data' =
                 [columns |-> result_df_sv_data.columns,
                  rows |-> sort_values(drop_duplicates(result_df_sv_data.rows))]
            /\ pc' = "back_to_rinex_file"
            /\ UNCHANGED exc
    /\ UNCHANGED <<input_dir, start_date, end_date, gnss_files, k, log,
                   result_df_header_data, output>>

\* lines 49 and 211-213: write head(1) of the header and every satellite row
back_to_rinex_file ==
    /\ pc = "back_to_rinex_file"
    /\ LET head == [columns |-> result_df_header_data.columns,
                    rows |-> SubSeq(result_df_header_data.rows, 1, 1)]
       IN  IF WriterFails(head)
           THEN Raise("ValueError", "write_to_rinex_file") /\ UNCHANGED output
           ELSE /\ output' = <<[header |-> WriteHeader(head),
                                body |-> WriteSvData(result_df_sv_data.rows)]>>
                /\ pc' = "done"
                /\ UNCHANGED exc
    /\ UNCHANGED <<input_dir, start_date, end_date, gnss_files, k, log,
                   result_df_header_data, result_df_sv_data>>

Next ==
    \/ get_gnss_files
    \/ validate_rinex_file
    \/ parse_rinex_file
    \/ parse_files
    \/ process_header_data
    \/ process_sv_data
    \/ back_to_rinex_file

Spec == Init /\ [][Next]_vars

SpecV == InitV /\ [][Next]_vars

(* ---------------------------------------------------------------------- *)
(* Properties                                                              *)
(* ---------------------------------------------------------------------- *)
Finished == pc \in {"done", "raised"}

Consolidated == pc \in {"back_to_rinex_file", "done"}

\* the file was turned away by validation or by the version test
Rejected(file) ==
    \/ ~is_valid_rinex(file).valid
    \/ \E v \in file.header.rinex_ver : v >= EndVersion \/ v < MinVersion

MandatoryLabels == <<"RINEX VERSION / TYPE", "PGM / RUN BY / DATE", "END OF HEADER">>

\* C1: when no file matches the tag, or every candidate is rejected by
\* validation or by the version test, merge_files does not raise and the
\* file it writes holds the three mandatory header lines and no block.
C1_NoCandidateWritesHeaderOnly ==
    (pc # "get_gnss_files" /\ \A n \in 1..Len(gnss_files) : Rejected(gnss_files[n]))
    => /\ pc # "raised"
       /\ pc = "done" =>
            /\ [n \in 1..Len(output[1].header) |-> output[1].header[n].label] = MandatoryLabels
            /\ output[1].body = <<>>

PerFileSteps == {"is_valid_rinex", "parse_header", "parse_rinex_file", "parse_sv_data",
                 "filter_by_date"}

\* C2: the content of one candidate file never aborts the merge: no
\* exception leaves merge_files from the validation or the parsing of a
\* file, a bad file is only skipped.
C2_BadFileOnlySkipped ==
    pc = "raised" => exc[1].at \notin PerFileSteps

\* the log says that file n passed validation
PassedValidation(n) == \E e \in 1..Len(log) : log[e].file = n /\ log[e].status

\* the declared version of file n lies in [3, 4)
PassedVersionCheck(n) ==
    /\ gnss_files[n].header.rinex_ver # {}
    /\ \A v \in gnss_files[n].header.rinex_ver : v >= MinVersion /\ v < EndVersion

PooledSources ==
    {result_df_header_data.rows[n].src : n \in 1..Len(result_df_header_data.rows)}
    \cup {result_df_sv_data.rows[n].src : n \in 1..Len(result_df_sv_data.rows)}

\* C3: every header and every satellite record of the pools comes from a
\* file that passed validation and whose version is at least 3 and below 4;
\* a rejected file contributes nothing.
C3_RejectedFilesContributeNothing ==
    \A n \in PooledSources : PassedValidation(n) /\ PassedVersionCheck(n)

\* C3 witness: the loop is over, a candidate that passed validation was
\* turned away for its version, and the pools hold the rows of another file
C3_Witness ==
    /\ pc = "process_header_data"
    /\ \E n \in 1..Len(gnss_files) : PassedValidation(n) /\ ~PassedVersionCheck(n)
    /\ result_df_header_data.rows # <<>>
    /\ result_df_sv_data.rows # <<>>

KeysIn(rows) == {<<rows[n].SV, rows[n].DD, rows[n].hh>> : n \in 1..Len(rows)}

\* the blocks of a written body, as <<SV, DD, hh>> of their first lines
WrittenKeys(body) ==
    [b \in 1..(Len(body) \div 4) |->
        <<body[4 * b - 3].SV, body[4 * b - 3].DD, body[4 * b - 3].hh>>]

NoRepeat(seq) == \A a, b \in 1..Len(seq) : a # b => seq[a] # seq[b]

RowKeys(rows) == [n \in 1..Len(rows) |-> <<rows[n].SV, rows[n].DD, rows[n].hh>>]

\* C4: process_sv_data turns the pool into a sequence with exactly one
\* record for every key (sv_id, year, month, day, hour, minute, second) of
\* the pool and no key twice, and the written file holds the same keys.
C4_OneRecordPerKey ==
    /\ [][(pc = "process_sv_data" /\ pc' = "back_to_rinex_file")
            => /\ KeysIn(result_df_sv_data'.rows) = KeysIn(result_df_sv_data.rows)
               /\ NoRepeat(RowKeys(result_df_sv_data'.rows))]_vars
    /\ [](pc = "done" => /\ NoRepeat(WrittenKeys(output[1].body))
                         /\ WrittenKeys(output[1].body) = RowKeys(result_df_sv_data.rows))

\* C4 witness: without a window, a file has more records than rows of it
\* are left in the written result, so duplicates were dropped
C4_Witness ==
    /\ pc = "done"
    /\ start_date = {}
    /\ Len(result_df_sv_data.rows) >= 2
    /\ \E n \in 1..Len(gnss_files) :
          /\ PassedValidation(n) /\ PassedVersionCheck(n)
          /\ Len(parse_sv_data(gnss_files[n]).rows)
               > Cardinality({m \in 1..Len(result_df_sv_data.rows) :
                                 result_df_sv_data.rows[m].src = n})

\* adjacent elements of seq are ordered by sv, then by time
SortedBySvThenTime(sv, time) ==
    \A n \in 1..(Len(sv) - 1) :
        /\ sv[n] <= sv[n + 1]
        /\ sv[n] = sv[n + 1] => time[n] <= time[n + 1]

\* C5: in the consolidated sequence and in the written file, sv_id never
\* decreases from a record to the next, and between records of equal sv_id
\* timestamp_utc never decreases.
C5_SortedBySvThenTime ==
    Consolidated =>
        /\ SortedBySvThenTime([n \in 1..Len(result_df_sv_data.rows) |-> result_df_sv_data.rows[n].SV],
                              [n \in 1..Len(result_df_sv_data.rows) |->
                                  result_df_sv_data.rows[n].datetime_utc])
        /\ pc = "done" =>
             SortedBySvThenTime([b \in 1..(Len(output[1].body) \div 4) |-> output[1].body[4 * b - 3].SV],
                                [b \in 1..(Len(output[1].body) \div 4) |->
                                    output[1].body[4 * b - 3].DD * HoursPerDay
                                    + output[1].body[4 * b - 3].hh])

\* C5 witness: the written result has records of two satellites and two
\* epochs of one satellite, pooled from files in another order
C5_Witness ==
    /\ pc = "done"
    /\ \E a, b \in 1..Len(result_df_sv_data.rows) :
          /\ result_df_sv_data.rows[a].SV < result_df_sv_data.rows[b].SV
          /\ result_df_sv_data.rows[a].src > result_df_sv_data.rows[b].src
    /\ \E a, b \in 1..Len(result_df_sv_data.rows) :
          /\ result_df_sv_data.rows[a].SV = result_df_sv_data.rows[b].SV
          /\ result_df_sv_data.rows[a].datetime_utc < result_df_sv_data.rows[b].datetime_utc

\* a row without its provenance
Strip(row) == [c \in DOMAIN row \ {"src"} |-> row[c]]

StripAll(rows) == [n \in 1..Len(rows) |-> Strip(rows[n])]

\* the pools parse_files builds from the candidates taken in the given order
RECURSIVE PoolInOrder(_, _, _, _, _, _)
PoolInOrder(files, n, headers, satellites, start, end) ==
    IF n > Len(files) THEN [raised |-> <<>>, headers |-> headers, satellites |-> satellites]
    ELSE IF ~is_valid_rinex(files[n]).valid
         THEN PoolInOrder(files, n + 1, headers, satellites, start, end)
    ELSE LET r == ParseOutcome(files[n], n, headers, satellites, start, end)
         IN  IF r.raised # <<>> THEN r
             ELSE PoolInOrder(files, n + 1, r.headers, r.satellites, start, end)

\* the header lines that can be written for the given pool
WrittenHeaders(headers) ==
    {WriteHeader([columns |-> headers.columns, rows |-> SubSeq(bfill_ffill(sorted), 1, 1)]) :
        sorted \in SortedDescending(dropna(headers))}

\* C6: merging the same candidates in any other enumeration order gives the
\* same consolidated satellite sequence, values included, and the same
\* written header.
C6_OrderIndependent ==
    pc = "done" =>
        \A q \in IndexOrders(Len(gnss_files)) :
            LET pool == PoolInOrder([n \in 1..Len(gnss_files) |-> gnss_files[q[n]]], 1,
                                    EmptyFrame, EmptyFrame, start_date, end_date)
            IN  /\ pool.raised = <<>>
                /\ StripAll(sort_values(drop_duplicates(pool.satellites.rows)))
                     = StripAll(result_df_sv_data.rows)
                /\ WrittenHeaders(pool.headers) = {output[1].header}

WindowGiven == start_date # {} /\ end_date # {}

\* the records of the files that passed validation and the version test
AcceptedRows ==
    UNION {{Tagged(parse_sv_data(gnss_files[n]).rows, n)[m] :
               m \in 1..Len(parse_sv_data(gnss_files[n]).rows)} :
           n \in {x \in 1..Len(gnss_files) : PassedValidation(x) /\ PassedVersionCheck(x)}}

Within(t) == \A s \in start_date, e \in end_date : s <= t /\ t <= e

\* C7: with a window [start, end], the consolidated sequence holds one
\* record for each key of the accepted records with start <= timestamp_utc
\* <= end, and nothing else; no record outside the window is in the
\* returned sequence or in the written file.
C7_OnlyRecordsInsideWindow ==
    (Consolidated /\ WindowGiven) =>
        /\ \A n \in 1..Len(result_df_sv_data.rows) :
              /\ result_df_sv_data.rows[n] \in AcceptedRows
              /\ Within(result_df_sv_data.rows[n].datetime_utc)
        /\ \A r \in AcceptedRows :
              Within(r.datetime_utc) => <<r.SV, r.DD, r.hh>> \in KeysIn(result_df_sv_data.rows)
        /\ NoRepeat(RowKeys(result_df_sv_data.rows))
        /\ pc = "done" =>
              /\ Len(output[1].body) = 4 * Len(result_df_sv_data.rows)
              /\ \A b \in 1..(Len(output[1].body) \div 4) :
                    Within(output[1].body[4 * b - 3].DD * HoursPerDay + output[1].body[4 * b - 3].hh)

\* C7 witness: a file was written for a window that leaves an accepted
\* record out and keeps records lying exactly on its start and on its end
C7_Witness ==
    /\ pc = "done"
    /\ WindowGiven
    /\ \E r \in AcceptedRows : ~Within(r.datetime_utc)
    /\ \E n \in 1..Len(result_df_sv_data.rows) : result_df_sv_data.rows[n].datetime_utc \in start_date
    /\ \E n \in 1..Len(result_df_sv_data.rows) : result_df_sv_data.rows[n].datetime_utc \in end_date

\* the first lines of the 4-line blocks of a body, blank lines between
\* blocks left out
RECURSIVE BlockStarts(_, _)
BlockStarts(lines, i) ==
    IF i > Len(lines) THEN {}
    ELSE IF lines[i].blank THEN BlockStarts(lines, i + 1)
    ELSE {i} \cup BlockStarts(lines, i + 4)

\* block s of the body is malformed
MalformedBlock(lines, s) ==
    \/ ~lines[s].hdr
    \/ Len(lines[s].fields) # 3
    \/ \E j \in 1..3 : s + j > Len(lines) \/ Len(lines[s + j].fields) # 4

StructuralDeviation(lines) == \E s \in BlockStarts(lines, 1) : MalformedBlock(lines, s)

\* C8: a readable file without an END OF HEADER line, or with a block
\* whose first line does not match the label/date pattern or does not hold
\* exactly 3 fields, whose line 2, 3 or 4 does not hold exactly 4 fields, or
\* whose last block has fewer than 4 lines, gets valid=false and a
\* non-empty error list.
C8_StructuralGate ==
    \A e \in 1..Len(log) :
        LET file == gnss_files[log[e].file]
        IN  (file.readable /\ (~file.eoh \/ StructuralDeviation(file.body)))
            => (~log[e].status /\ log[e].errors # <<>>)

\* C8 witness: a logged file has a block with a well-formed first line and
\* 3 fields on its second line, another whose lines run out, and it was
\* found invalid
C8_Witness ==
    \E e \in 1..Len(log) :
        LET file == gnss_files[log[e].file]
        IN  /\ file.readable /\ file.eoh
            /\ ~log[e].status
            /\ \E s \in BlockStarts(file.body, 1) :
                  /\ file.body[s].hdr /\ Len(file.body[s].fields) = 3
                  /\ s + 1 <= Len(file.body) /\ Len(file.body[s + 1].fields) = 3
            /\ \E s \in BlockStarts(file.body, 1) :
                  /\ file.body[s].hdr /\ Len(file.body[s].fields) = 3
                  /\ s + 3 > Len(file.body)

\* a value outside the plausibility limit of its column (0-based)
Implausible(col, v) ==
    /\ v # 0
    /\ \/ col = 0 /\ (v > PseudorangeBound \/ v < -PseudorangeBound)
       \/ col = 1 /\ (v > VelocityBound \/ v < -VelocityBound)
       \/ col = 2 /\ (v > AccelerationBound \/ v < -AccelerationBound)

\* the error list has an entry for the value at the given line and column
Flagged(errors, line, col) ==
    \E x \in 1..Len(errors) :
        errors[x].kind = "anomalous" /\ errors[x].line = line /\ errors[x].col = col

\* C9 as claimed: in a structurally sound file every implausible value of
\* every data line of a block, the first line included, is recorded as an
\* error and makes the file invalid.
C9_BoundsOnEveryDataLine ==
    \A e \in 1..Len(log) :
        LET file == gnss_files[log[e].file]
        IN  (file.readable /\ file.eoh /\ ~StructuralDeviation(file.body)) =>
              \A s \in BlockStarts(file.body, 1), j \in 0..3 :
                 \A c \in 1..Len(file.body[s + j].fields) :
                    Implausible(c - 1, file.body[s + j].fields[c])
                    => (~log[e].status /\ Flagged(log[e].errors, s + j, c - 1))

\* C9 as amended: the bounds cover lines 2-4 of a block and not its first
\* line.  Every recorded anomaly is an implausible value of column 0, 1 or 2
\* of a continuation line; in a structurally sound file every such value is
\* recorded and makes the file invalid, and a file without one is valid
\* whatever its first lines, zeros and column-3 values are.
C9_BoundsOnContinuationLines ==
    \A e \in 1..Len(log) :
        LET file == gnss_files[log[e].file]
            errors == log[e].errors
        IN  (file.readable /\ file.eoh) =>
              /\ \A x \in 1..Len(errors) :
                    errors[x].kind = "anomalous" =>
                       /\ \E s \in BlockStarts(file.body, 1) : errors[x].line \in (s + 1)..(s + 3)
                       /\ errors[x].col \in 0..2
                       /\ Implausible(errors[x].col, file.body[errors[x].line].fields[errors[x].col + 1])
              /\ ~StructuralDeviation(file.body) =>
                    /\ \A s \in BlockStarts(file.body, 1), j \in 1..3, c \in 1..4 :
                          Implausible(c - 1, file.body[s + j].fields[c])
                          => (~log[e].status /\ Flagged(errors, s + j, c - 1))
                    /\ (\A s \in BlockStarts(file.body, 1), j \in 1..3, c \in 1..4 :
                          ~Implausible(c - 1, file.body[s + j].fields[c]))
                       => log[e].status

\* C9 witness: a structurally sound file was found invalid for the values of
\* its continuation lines, among them one in column 2, while a first line of
\* it holds a value beyond the limit of its column, which is not recorded
C9_Witness ==
    \E e \in 1..Len(log) :
        LET file == gnss_files[log[e].file]
        IN  /\ file.readable /\ file.eoh /\ ~StructuralDeviation(file.body)
            /\ ~log[e].status
            /\ \E x \in 1..Len(log[e].errors) : log[e].errors[x].col = 2
            /\ \E s \in BlockStarts(file.body, 1), c \in 1..3 :
                  /\ Implausible(c - 1, file.body[s].fields[c])
                  /\ ~Flagged(log[e].errors, s, c - 1)

\* C10 as claimed: a path that cannot be read never yields a validation
\* result; the failure leaves is_valid_rinex as an exception.
C10_ReadFailurePropagates ==
    \A e \in 1..Len(log) : gnss_files[log[e].file].readable

\* C10 as amended: is_valid_rinex raises neither on malformed content nor on
\* a path that cannot be read; every file the loop has passed has a
\* validation result, and that of an unreadable path is valid=false with the
\* read error as its only entry.
C10_ReadFailureIsAResult ==
    /\ pc = "raised" => exc[1].at # "is_valid_rinex"
    /\ \A n \in 1..Len(gnss_files) : n < k => \E e \in 1..Len(log) : log[e].file = n
    /\ \A e \in 1..Len(log) :
          ~gnss_files[log[e].file].readable
          => /\ ~log[e].status
             /\ Len(log[e].errors) = 1
             /\ log[e].errors[1].kind = "read"

\* C10 witness: the log holds the result of an unreadable path and the
\* result of a readable file with malformed content
C10_Witness ==
    /\ \E e \in 1..Len(log) : ~gnss_files[log[e].file].readable /\ ~log[e].status
    /\ \E e \in 1..Len(log) :
          /\ gnss_files[log[e].file].readable /\ gnss_files[log[e].file].eoh
          /\ StructuralDeviation(gnss_files[log[e].file].body)
          /\ ~log[e].status

\* the files whose header and records were pooled
Accepted == {n \in 1..Len(gnss_files) : PassedValidation(n) /\ PassedVersionCheck(n)}

\* the values of the written header lines with the given label
Written(label) ==
    {output[1].header[n].value : n \in {x \in 1..Len(output[1].header) :
                                             output[1].header[x].label = label}}

\* C11: the written header has a time-system-correction line, respectively
\* a leap-seconds line, exactly when some accepted file's header carries
\* that field, and the value written is one that an accepted header
\* carries; when no accepted header carries the field there is no such
\* line, with no placeholder value in its place.
C11_OptionalLinesIffCarried ==
    pc = "done" =>
        /\ Written("TIME SYSTEM CORR") = {} <=>
               \A n \in Accepted : gnss_files[n].header.GLUT = {}
        /\ Written("TIME SYSTEM CORR") \subseteq
               UNION {gnss_files[n].header.GLUT : n \in Accepted}
        /\ Written("LEAP SECONDS") = {} <=>
               \A n \in Accepted : gnss_files[n].header.leap_sec = {}
        /\ Written("LEAP SECONDS") \subseteq
               UNION {{<<v>> : v \in gnss_files[n].header.leap_sec} : n \in Accepted}

\* C11 witness: a file was written from two accepted files, one of them
\* with a leap-seconds line and one without, none with a correction line;
\* the written header has the leap-seconds line and no correction line
C11_Witness ==
    /\ pc = "done"
    /\ Cardinality(Accepted) = 2
    /\ \E n, m \in Accepted :
          gnss_files[n].header.leap_sec # {} /\ gnss_files[m].header.leap_sec = {}
    /\ Written("LEAP SECONDS") # {}
    /\ Written("TIME SYSTEM CORR") = {}

\* the 4-line blocks of a sequence of lines, blank lines between blocks skipped
BlocksOf(lines) ==
    {SubSeq(lines, s, s + 3) : s \in {x \in BlockStarts(lines, 1) : x + 3 <= Len(lines)}}

\* the first lines of the blocks carry pairwise distinct keys
DistinctBlockKeys(lines) ==
    \A s, t \in BlockStarts(lines, 1) :
        s # t => <<lines[s].SV, lines[s].DD, lines[s].hh>> # <<lines[t].SV, lines[t].DD, lines[t].hh>>

\* C12: merging, with no window, a single file that validation and the
\* version test accept and whose N blocks have pairwise distinct keys ends
\* with a written file of exactly 4 * N body lines after the header, whose
\* blocks are the source's blocks (label, epoch and the 15 values in their
\* order), and whose version line says 3.04.
C12_RoundTrip ==
    (/\ Finished
     /\ ~WindowGiven
     /\ Len(gnss_files) = 1
     /\ Accepted = {1}
     /\ DistinctBlockKeys(gnss_files[1].body))
    => /\ pc = "done"
       /\ Len(output[1].body) = 4 * Cardinality(BlockStarts(gnss_files[1].body, 1))
       /\ BlocksOf(output[1].body) = BlocksOf(gnss_files[1].body)
       /\ Written("RINEX VERSION / TYPE") = {<<WrittenVersion>>}

\* file n was handed to the parser: it passed validation and the version
\* test, and the loop went past it or stopped in it
Parsed(n) ==
    /\ PassedValidation(n)
    /\ PassedVersionCheck(n)
    /\ n < k \/ (n = k /\ pc = "raised")

HasShortLine(lines) == \E i \in 1..Len(lines) : lines[i].short

\* C13: when the parser is handed a file with a body line that ends before
\* its fixed-width columns, parsing fails with the dedicated ParseError, and
\* no satellite record of that file is in the pool.
C13_ShortLineRaisesParseError ==
    \A n \in 1..Len(gnss_files) :
        (Parsed(n) /\ HasShortLine(gnss_files[n].body)) =>
            /\ pc = "raised"
            /\ exc[1].at = "parse_sv_data"
            /\ exc[1].type = "ParseError"
            /\ \A m \in 1..Len(result_df_sv_data.rows) : result_df_sv_data.rows[m].src # n

\* the starts of the malformed blocks of a body
MalformedStarts(lines) == {s \in BlockStarts(lines, 1) : MalformedBlock(lines, s)}

\* C14: the first block with a structural deviation (first line against the
\* pattern or without exactly 3 fields, a line 2-4 without exactly 4 fields,
\* or too few lines) ends the validator's scan: every entry of the file's
\* error list stems from a line of that block or of a block before it.
C14_FailFast ==
    \A e \in 1..Len(log) :
        LET lines == gnss_files[log[e].file].body
            bad == MalformedStarts(lines)
        IN  (gnss_files[log[e].file].readable /\ gnss_files[log[e].file].eoh /\ bad # {}) =>
                \A x \in 1..Len(log[e].errors) :
                    log[e].errors[x].line <= (CHOOSE s \in bad : \A t \in bad : s <= t) + 3

\* the positions of the pooled headers that the reconciliation keeps: all of
\* them, or, when the pool has both tracked columns, those with a tracked value
Retained(df) ==
    {n \in 1..Len(df.rows) :
        \/ ~({"GLUT", "leap_sec"} \subseteq df.columns)
        \/ df.rows[n].GLUT # {}
        \/ df.rows[n].leap_sec # {}}

\* header a is strictly newer than header b; a header without a date is older
\* than every dated one
StrictlyNewer(a, b) ==
    /\ a.datetime_utc # {}
    /\ b.datetime_utc = {} \/ \E x \in a.datetime_utc, y \in b.datetime_utc : x > y

\* C15: the header that the reconciliation puts first, the one handed to the
\* writer, has the newest timestamp_utc of the retained headers, and its
\* correction and its leap seconds are each the value of a newest retained
\* header that has the field (none when no retained header has it).
C15_HeaderSelection ==
    [][(pc = "process_header_data" /\ pc' = "process_sv_data") =>
        LET rows == result_df_header_data.rows
            kept == Retained(result_df_header_data)
            head == result_df_header_data'.rows[1]
        IN  /\ \E n \in kept : head.datetime_utc = rows[n].datetime_utc
            /\ \A n \in kept : ~StrictlyNewer(rows[n], head)
            /\ \A c \in {"GLUT", "leap_sec"} :
                  LET have == {n \in kept : rows[n][c] # {}}
                  IN  IF have = {} THEN head[c] = {}
                      ELSE \E n \in have :
                              /\ head[c] = rows[n][c]
                              /\ \A m \in have : ~StrictlyNewer(rows[m], rows[n])]_vars

\* C15 witness: the reconciliation has put a header first that is strictly
\* newer than another retained one and has no leap seconds of its own; its
\* leap seconds are those of the older header
C15_Witness ==
    /\ pc = "process_sv_data"
    /\ Len(result_df_header_data.rows) = 2
    /\ LET head == result_df_header_data.rows[1]
           other == result_df_header_data.rows[2]
       IN  /\ gnss_files[head.src].header.leap_sec = {}
           /\ gnss_files[other.src].header.leap_sec # {}
           /\ head.leap_sec = gnss_files[other.src].header.leap_sec
           /\ StrictlyNewer(gnss_files[head.src].header, gnss_files[other.src].header)

\* the header carries neither the correction nor the leap seconds
Bare(row) == row.GLUT = {} /\ row.leap_sec = {}

SourcesOf(rows) == {rows[n].src : n \in 1..Len(rows)}

\* C16: a pooled header with neither the correction nor the leap seconds is
\* removed by the reconciliation whenever another pooled header supplies the
\* correction or the leap seconds.
C16_DropWhenAnySupplied ==
    [][(pc = "process_header_data" /\ pc' = "process_sv_data") =>
        LET rows == result_df_header_data.rows
        IN  \A n \in 1..Len(rows) :
                (Bare(rows[n]) /\ \E m \in 1..Len(rows) : ~Bare(rows[m]))
                    => rows[n].src \notin SourcesOf(result_df_header_data'.rows)]_vars

\* C16, amended: the reconciliation removes the pooled headers with neither
\* the correction nor the leap seconds exactly when some pooled header
\* supplies the correction and some pooled header supplies the leap seconds;
\* otherwise it keeps every pooled header.
C16_DropOnlyWhenBothSupplied ==
    [][(pc = "process_header_data" /\ pc' = "process_sv_data") =>
        LET rows == result_df_header_data.rows
            both == /\ \E m \in 1..Len(rows) : rows[m].GLUT # {}
                    /\ \E m \in 1..Len(rows) : rows[m].leap_sec # {}
        IN  /\ SourcesOf(result_df_header_data'.rows) =
                  {rows[n].src : n \in {x \in 1..Len(rows) : ~(both /\ Bare(rows[x]))}}
            /\ Len(result_df_header_data'.rows) =
                  Cardinality({x \in 1..Len(rows) : ~(both /\ Bare(rows[x]))})]_vars

\* C16 witness: of two accepted files, one with the correction and the leap
\* seconds in its header and one with neither, the reconciliation has kept
\* the first header only
C16_Witness ==
    /\ pc = "process_sv_data"
    /\ Cardinality(Accepted) = 2
    /\ Len(result_df_header_data.rows) = 1
    /\ \E n \in Accepted :
          /\ gnss_files[n].header.GLUT = {}
          /\ gnss_files[n].header.leap_sec = {}
          /\ n \notin SourcesOf(result_df_header_data.rows)

\* the first record with the key of r among the records parsed from r's file
FirstInFile(r) ==
    LET rows == parse_sv_data(gnss_files[r.src]).rows
        same == {m \in 1..Len(rows) : <<rows[m].SV, rows[m].DD, rows[m].hh>> = <<r.SV, r.DD, r.hh>>}
    IN  rows[CHOOSE m \in same : \A x \in same : m <= x]

\* C17: of the accepted records that share a key, the consolidated sequence
\* holds the one of the earliest enumerated file, and of that file's records
\* with the key the one that comes first in the file.
C17_FirstOccurrenceSurvives ==
    Consolidated =>
        \A n \in 1..Len(result_df_sv_data.rows) :
            LET r == result_df_sv_data.rows[n]
            IN  /\ r \in AcceptedRows
                /\ \A a \in AcceptedRows :
                      <<a.SV, a.DD, a.hh>> = <<r.SV, r.DD, r.hh>> => r.src <= a.src
                /\ Strip(r) = FirstInFile(r)

\* C17 witness: a file was written although a key came twice with different
\* values within the first file and once more in the second file
C17_Witness ==
    /\ pc = "done"
    /\ \E n \in 1..Len(result_df_sv_data.rows) :
          LET r == result_df_sv_data.rows[n]
          IN  /\ r.src = 1
              /\ \E a, b \in AcceptedRows :
                    /\ <<a.SV, a.DD, a.hh>> = <<r.SV, r.DD, r.hh>>
                    /\ <<b.SV, b.DD, b.hh>> = <<r.SV, r.DD, r.hh>>
                    /\ a.src = 1 /\ a.FloatList # r.FloatList
                    /\ b.src = 2 /\ b.FloatList # r.FloatList

\* C18: a file that is_valid_rinex accepts is parsed by parse_sv_data
\* without an exception, into as many records as the body has 4-line blocks
\* when blank lines are skipped the way the validator skips them.
C18_ValidatorParserAgreement ==
    /\ \A n \in 1..Len(gnss_files) :
          PassedValidation(n) =>
              /\ ~parse_sv_data(gnss_files[n]).raised
              /\ Len(parse_sv_data(gnss_files[n]).rows) =
                     Cardinality(BlockStarts(gnss_files[n].body, 1))
    /\ pc = "raised" => exc[1].at # "parse_sv_data"

\* C19: when merge_files is called without start_date or without end_date,
\* also when exactly one of the two is given, nothing is filtered: the
\* consolidated sequence holds a record for the key of every record of
\* every accepted file, whatever its timestamp.
C19_NoFilterUnlessBothBounds ==
    (Consolidated /\ (start_date = {} \/ end_date = {})) =>
        /\ \A a \in AcceptedRows : <<a.SV, a.DD, a.hh>> \in KeysIn(result_df_sv_data.rows)
        /\ \A n \in 1..Len(result_df_sv_data.rows) : result_df_sv_data.rows[n] \in AcceptedRows

\* C19 witness: a file was written for a call with an end_date and no
\* start_date, and it holds a record later than the end_date
C19_Witness ==
    /\ pc = "done"
    /\ start_date = {}
    /\ end_date # {}
    /\ \E n \in 1..Len(result_df_sv_data.rows) :
          \E e \in end_date : result_df_sv_data.rows[n].datetime_utc > e
    /\ Len(output[1].body) = 4 * Len(result_df_sv_data.rows)

=============================================================================
